---- MODULE Spec2Model ----
(***************************************************************************)
(* Model of exceltopdf.py: ExcelToPDFConverter and batch_excel_to_pdf.     *)
(*                                                                         *)
(* Text is modelled by TLA+ strings, a DataFrame by its column labels and  *)
(* its rows of cell texts, a Python float by the dyadic rational it holds  *)
(* (IEEE-754 binary64, round to nearest even), and the flowables handed to *)
(* the document by records.  process_excel_files is followed through its   *)
(* loops: one step per input file, one per sheet, and a last one that      *)
(* creates the table of contents and builds the document.                  *)
(***************************************************************************)
EXTENDS Integers, Sequences, FiniteSets, TLC

VARIABLES
    elements,       \* self.elements: the flowables of the document
    toc_data,       \* self.toc_data: one record per file / sheet
    current_page,   \* self.current_page
    converters,     \* number of ExcelToPDFConverter objects constructed so far
    pc,             \* position inside process_excel_files: "idle" when not running
    excel_files,    \* the argument of the running (or last) process_excel_files
    fi,             \* number of entries of excel_files the outer loop has taken
    sheet_names,    \* excel.sheet_names of the file being processed
    si,             \* number of sheets of that file the inner loop has taken
    toc_base,       \* len(self.toc_data) when the running (or last) call began
    stdout,         \* what print() has written
    pdf,            \* the document the last doc.build wrote (NoPdf before any)
    caller,         \* who called process_excel_files: "main" or "batch"
    listing,        \* os.listdir(input_directory) of the last batch_excel_to_pdf
    calls,          \* number of process_excel_files / batch_excel_to_pdf calls
    df,             \* argument of a direct split_dataframe / process_dataframe call
    split_dfs,      \* result of that split_dataframe call
    col_widths      \* col_widths returned by that process_dataframe call

vars == <<elements, toc_data, current_page, converters, pc, excel_files, fi,
          sheet_names, si, toc_base, stdout, pdf, caller, listing, calls,
          df, split_dfs, col_widths>>

(***************************************************************************)
(* Bounds of the model.                                                    *)
(***************************************************************************)
MaxFiles == 2        \* longest excel_files list
MaxListing == 2      \* most entries of the input directory
MaxCalls == 2        \* calls of process_excel_files on one converter
MaxSplitCols == 15   \* widest table handed to split_dataframe directly
MaxSplitRows == 3    \* most rows of such a table
MaxWidthCols == 7    \* widest table handed to process_dataframe directly
RowsPerPage == 4     \* table rows the layout engine fits on one page

(***************************************************************************)
(* Small helpers.                                                          *)
(***************************************************************************)
Max2(a, b) == IF a >= b THEN a ELSE b
Min2(a, b) == IF a <= b THEN a ELSE b

RECURSIVE SumSeq(_)
SumSeq(s) == IF s = <<>> THEN 0 ELSE Head(s) + SumSeq(Tail(s))

RECURSIVE MaxSeq(_)
MaxSeq(s) == IF Len(s) = 1 THEN s[1] ELSE Max2(Head(s), MaxSeq(Tail(s)))

RECURSIVE Flatten(_)
Flatten(ss) == IF ss = <<>> THEN <<>> ELSE Head(ss) \o Flatten(Tail(ss))

CeilDiv(a, b) == (a + b - 1) \div b

(***************************************************************************)
(* Python floats.  A value is [m |-> limbs, e |-> k]: the natural number   *)
(* with little-endian base-2^16 limbs m, times 2^k.  An int n is           *)
(* [m |-> <<n>>, e |-> 0].                                                 *)
(***************************************************************************)
LimbBase == 2^16
MantissaBits == 53

RECURSIVE Pow2(_)
Pow2(n) == IF n = 0 THEN 1 ELSE 2 * Pow2(n - 1)

RECURSIVE Norm(_)
Norm(x) == IF x # <<>> /\ x[Len(x)] = 0 THEN Norm(SubSeq(x, 1, Len(x) - 1)) ELSE x

RECURSIVE MulSmall(_, _, _)
MulSmall(x, c, carry) ==
    IF x = <<>> THEN (IF carry = 0 THEN <<>> ELSE <<carry>>)
    ELSE LET t == Head(x) * c + carry
         IN  <<t % LimbBase>> \o MulSmall(Tail(x), c, t \div LimbBase)

RECURSIVE AddBig(_, _, _)
AddBig(x, y, carry) ==
    IF x = <<>> /\ y = <<>> THEN (IF carry = 0 THEN <<>> ELSE <<carry>>)
    ELSE LET a == IF x = <<>> THEN 0 ELSE Head(x)
             b == IF y = <<>> THEN 0 ELSE Head(y)
             t == a + b + carry
         IN  <<t % LimbBase>>
             \o AddBig(IF x = <<>> THEN <<>> ELSE Tail(x),
                       IF y = <<>> THEN <<>> ELSE Tail(y), t \div LimbBase)

RECURSIVE LeqNorm(_, _, _)
LeqNorm(x, y, i) ==   \* x <= y for normalised x, y of equal length, from limb i down
    IF i = 0 THEN TRUE
    ELSE IF x[i] # y[i] THEN x[i] < y[i] ELSE LeqNorm(x, y, i - 1)

LeqBig(x, y) ==
    LET a == Norm(x)
        b == Norm(y)
    IN  IF Len(a) # Len(b) THEN Len(a) < Len(b) ELSE LeqNorm(a, b, Len(a))

RECURSIVE BitLenInt(_)
BitLenInt(n) == IF n = 0 THEN 0 ELSE 1 + BitLenInt(n \div 2)

BitLen(x) ==
    LET a == Norm(x)
    IN  IF a = <<>> THEN 0 ELSE 16 * (Len(a) - 1) + BitLenInt(a[Len(a)])

Limb(x, i) == IF i <= Len(x) THEN x[i] ELSE 0

Bit(x, i) == (Limb(x, (i \div 16) + 1) \div Pow2(i % 16)) % 2

LowZero(x, k) ==     \* the k lowest bits of x are all 0
    /\ \A j \in 1..(k \div 16) : Limb(x, j) = 0
    /\ Limb(x, (k \div 16) + 1) % Pow2(k % 16) = 0

ShiftRight(x, k) ==
    LET q == k \div 16
        r == k % 16
        n == Len(x) - q
    IN  IF n <= 0 THEN <<>>
        ELSE Norm([i \in 1..n |->
                   (Limb(x, i + q) \div Pow2(r))
                   + (Limb(x, i + q + 1) % Pow2(r)) * Pow2(16 - r)])

ShiftLeft(x, k) ==
    [i \in 1..(k \div 16) |-> 0] \o MulSmall(x, Pow2(k % 16), 0)

\* x * 2^e with sticky bits below it, rounded to MantissaBits significant bits,
\* ties to even.
RoundFloat(x, e, sticky) ==
    LET L == BitLen(x)
    IN  IF L <= MantissaBits THEN [m |-> Norm(x), e |-> e]
        ELSE LET k  == L - MantissaBits
                 q  == ShiftRight(x, k)
                 rb == Bit(x, k - 1)
                 st == sticky \/ ~LowZero(x, k - 1)
                 up == rb = 1 /\ (st \/ Bit(q, 0) = 1)
                 q1 == IF up THEN Norm(AddBig(q, <<1>>, 0)) ELSE q
             IN  IF BitLen(q1) > MantissaBits
                 THEN [m |-> ShiftRight(q1, 1), e |-> e + k + 1]
                 ELSE [m |-> q1, e |-> e + k]

RECURSIVE DivSmall(_, _, _, _)
DivSmall(x, b, i, r) ==   \* limbs i..1 of x divided by b, r the remainder carried in
    IF i = 0 THEN [q |-> <<>>, r |-> r]
    ELSE LET cur  == r * LimbBase + x[i]
             rest == DivSmall(x, b, i - 1, cur % b)
         IN  [q |-> Append(rest.q, cur \div b), r |-> rest.r]

FromInt(n) == [m |-> Norm(<<n>>), e |-> 0]

\* a / b for ints 0 < a < b < 2^15 with a / b > 2^-10: the float nearest the quotient.
FloatDiv(a, b) ==
    LET d == DivSmall(<<0, 0, 0, 0, a>>, b, 5, 0)
    IN  RoundFloat(d.q, -64, d.r # 0)

\* int w (0 <= w < 2^15) times float s: the float nearest the product.
FloatMul(w, s) == RoundFloat(MulSmall(s.m, w, 0), s.e, FALSE)

(***************************************************************************)
(* Text: str.endswith, os.path.join, os.path.basename.                     *)
(***************************************************************************)
endswith(s, suffix) ==
    /\ Len(s) >= Len(suffix)
    /\ SubSeq(s, Len(s) - Len(suffix) + 1, Len(s)) = suffix

RECURSIVE LastSlash(_, _)
LastSlash(p, i) ==     \* index of the last "/" among p[1..i], 0 when there is none
    IF i = 0 THEN 0
    ELSE IF SubSeq(p, i, i) = "/" THEN i ELSE LastSlash(p, i - 1)

basename_whole_path(p) == p

basename(p) == SubSeq(p, LastSlash(p, Len(p)) + 1, Len(p))

path_join(a, b) ==
    IF SubSeq(b, 1, 1) = "/" THEN b
    ELSE IF a = "" \/ endswith(a, "/") THEN a \o b
    ELSE a \o "/" \o b

(***************************************************************************)
(* DataFrames: [columns |-> labels, values |-> rows of cell texts].        *)
(***************************************************************************)
max_columns_per_table == 7
min_col_width == 50
max_col_width == 200
landscape_letter_width == 792

\* df.iloc[:, i:j] with Python's 0-based, end-exclusive, clipped slice
iloc_columns(d, i, j) ==
    LET hi == Min2(j, Len(d.columns))
    IN  [columns |-> SubSeq(d.columns, i + 1, hi),
         values  |-> [r \in 1..Len(d.values) |-> SubSeq(d.values[r], i + 1, hi)]]

split_dataframe_off_by_one(d) ==
    IF Len(d.columns) >= max_columns_per_table
    THEN [k \in 1..CeilDiv(Len(d.columns), max_columns_per_table - 1) |->
            iloc_columns(d, (k - 1) * (max_columns_per_table - 1),
                         (k - 1) * (max_columns_per_table - 1) + max_columns_per_table)]
    ELSE <<d>>

split_dataframe(d) ==
    IF Len(d.columns) > max_columns_per_table
    THEN [k \in 1..CeilDiv(Len(d.columns), max_columns_per_table) |->
            iloc_columns(d, (k - 1) * max_columns_per_table,
                         (k - 1) * max_columns_per_table + max_columns_per_table)]
    ELSE <<d>>

\* data = [df.columns.tolist()] + df.values.tolist()
data_of(d) == <<d.columns>> \o d.values

\* max(len(str(row[col])) * 7 for row in data), clamped
clamped_width(data, col) ==
    LET content == MaxSeq([r \in 1..Len(data) |-> Len(data[r][col]) * 7])
    IN  Max2(min_col_width, Min2(max_col_width, content))

default_max_width == landscape_letter_width - 60

process_dataframe_scale_late(d) ==
    LET data   == data_of(d)
        widths == [col \in 1..Len(data[1]) |-> clamped_width(data, col)]
        total  == SumSeq(widths)
    IN  [data |-> data,
         col_widths |->
            IF total > landscape_letter_width
            THEN [i \in 1..Len(widths) |->
                    FloatMul(widths[i], FloatDiv(default_max_width, total))]
            ELSE [i \in 1..Len(widths) |-> FromInt(widths[i])]]

process_dataframe(d) ==
    LET data   == data_of(d)
        widths == [col \in 1..Len(data[1]) |-> clamped_width(data, col)]
        total  == SumSeq(widths)
    IN  [data |-> data,
         col_widths |->
            IF total > default_max_width
            THEN [i \in 1..Len(widths) |->
                    FloatMul(widths[i], FloatDiv(default_max_width, total))]
            ELSE [i \in 1..Len(widths) |-> FromInt(widths[i])]]

(***************************************************************************)
(* The files on disk that the calls are tried on, and what pandas makes of *)
(* them: pd.ExcelFile(path) and pd.read_excel(path, sheet_name) either     *)
(* return or raise.                                                        *)
(***************************************************************************)
LongText == "a cell text of thirty-one chars"

NarrowDf == [columns |-> <<"id", "name">>, values |-> << <<"1", "alpha">> >>]

WideDf ==
    [columns |-> [i \in 1..8 |-> "col" \o ToString(i)],
     values  |-> [r \in 1..5 |->
                    [i \in 1..8 |-> IF i = 2 THEN LongText ELSE ToString(r * i)]]]

EmptyDf == [columns |-> <<>>, values |-> <<>>]

FileSystem ==
    { [path |-> "in/test1.xlsx", name |-> "test1.xlsx", opens |-> TRUE,
       sheets |-> << [name |-> "Summary", reads |-> TRUE, df |-> NarrowDf],
                     [name |-> "Data", reads |-> TRUE, df |-> WideDf] >>],
      [path |-> "in/broken.xls", name |-> "broken.xls", opens |-> FALSE,
       sheets |-> <<>>],
      [path |-> "in/test.xlsm", name |-> "test.xlsm", opens |-> TRUE,
       sheets |-> << [name |-> "Chart", reads |-> FALSE, df |-> EmptyDf],
                     [name |-> "Empty", reads |-> TRUE, df |-> EmptyDf],
                     [name |-> "Totals", reads |-> TRUE, df |-> NarrowDf] >>] }

Paths == {f.path : f \in FileSystem}

FileAt(path) == CHOOSE f \in FileSystem : f.path = path

ExcelFile(path) ==
    IF path \in Paths /\ FileAt(path).opens
    THEN [ok |-> TRUE,
          sheet_names |-> [i \in 1..Len(FileAt(path).sheets) |->
                             FileAt(path).sheets[i].name]]
    ELSE [ok |-> FALSE, error |-> "Excel file format cannot be determined"]

read_excel(path, sheet_name) ==
    LET sheets == FileAt(path).sheets
        i == CHOOSE j \in 1..Len(sheets) : sheets[j].name = sheet_name
    IN  IF sheets[i].reads
        THEN [ok |-> TRUE, df |-> sheets[i].df]
        ELSE [ok |-> FALSE, error |-> "sheet cannot be read as a table"]

(***************************************************************************)
(* Flowables.  A Paragraph's markup is kept parsed: anchor is the name of  *)
(* its <a name=...> tag, href the target of its <a href=...> tag.          *)
(***************************************************************************)
Paragraph(anchor, href, text, style) ==
    [kind |-> "Paragraph", anchor |-> anchor, href |-> href, text |-> text,
     style |-> style]

Spacer(height) == [kind |-> "Spacer", height |-> height]

PageBreak == [kind |-> "PageBreak"]

RowLengths(data) == {Len(data[r]) : r \in 1..Len(data)}

\* Table(data, colWidths): an empty table is an error (emptyTableAction)
Table(data, colWidths) ==
    IF Len(data) = 0 \/ RowLengths(data) = {0}
    THEN [ok |-> FALSE, error |-> "must have at least a row and column"]
    ELSE [ok |-> TRUE,
          table |-> [kind |-> "Table", data |-> data, colWidths |-> colWidths]]

(***************************************************************************)
(* ExcelToPDFConverter.                                                    *)
(***************************************************************************)
NoPdf == [pages |-> 0, flowables |-> <<>>, places |-> <<>>, outline |-> <<>>]

FileBookmark(toc) == "file_" \o ToString(Len(toc))

SheetBookmark_by_page(toc, page) == "sheet_" \o ToString(page)

SheetBookmark(toc, page) == "sheet_" \o ToString(Len(toc))

SheetTitle(sheet_name) == "    ↳ " \o sheet_name

TocRow(item) ==
    << Paragraph("", "#" \o item.bookmark, item.title, "TOCStyle"),
       Paragraph("", "", ToString(item.page), "TOCStyle") >>

TocTable(toc) ==
    [kind |-> "Table",
     data |-> << << Paragraph("", "", "Content", "CustomHeading"),
                    Paragraph("", "", "Page", "CustomHeading") >> >>
              \o [i \in 1..Len(toc) |-> TocRow(toc[i])],
     colWidths |-> <<450, 50>>]

create_table_of_contents_appended(elems, toc) ==
    elems \o << Paragraph("", "", "Table of Contents", "CustomTitle"),
                Spacer(30), TocTable(toc), PageBreak >>

\* self.elements after create_table_of_contents
create_table_of_contents(elems, toc) ==
    << Paragraph("", "", "Table of Contents", "CustomTitle"),
       Spacer(30), TocTable(toc), PageBreak >> \o elems

\* the for-loop over split_dfs from split i on; elems are the elements so far
RECURSIVE LayoutSplits(_, _, _)
LayoutSplits(splits, i, elems) ==
    IF i > Len(splits) THEN [ok |-> TRUE, elements |-> elems]
    ELSE LET e1 == IF i > 1
                   THEN Append(elems,
                               Paragraph("", "",
                                         "Continued (" \o ToString(i) \o "/"
                                         \o ToString(Len(splits)) \o ")",
                                         "CustomHeading"))
                   ELSE elems
             pd == process_dataframe(splits[i])
             t  == Table(pd.data, pd.col_widths)
         IN  IF t.ok
             THEN LayoutSplits(splits, i + 1, Append(Append(e1, t.table), Spacer(20)))
             ELSE [ok |-> FALSE, elements |-> e1, error |-> t.error]

\* doc.build: the page each flowable starts on.  A PageBreak ends the page, a
\* Table of more than RowsPerPage rows runs over onto further pages.
Advance(f) ==
    CASE f.kind = "PageBreak" -> 1
      [] f.kind = "Table" -> CeilDiv(Len(f.data), RowsPerPage) - 1
      [] OTHER -> 0

RECURSIVE PlacesFrom(_, _, _)
PlacesFrom(elems, i, page) ==
    IF i > Len(elems) THEN <<>>
    ELSE <<page>> \o PlacesFrom(elems, i + 1, page + Advance(elems[i]))

Places(elems) == PlacesFrom(elems, 1, 1)

NumPages(elems) ==
    LET pl == Places(elems)
        ends == {pl[i] + Advance(elems[i]) :
                    i \in {j \in 1..Len(elems) : elems[j].kind # "PageBreak"}}
    IN  IF ends = {} THEN 1 ELSE CHOOSE n \in ends : \A k \in ends : k <= n

\* _header_footer on page page_num: the outline entries add_bookmark adds
header_footer(toc, page_num) ==
    LET hits == {i \in 1..Len(toc) : toc[i].page = page_num}
    IN  IF hits = {} THEN <<>>
        ELSE LET i == CHOOSE j \in hits : \A k \in hits : j <= k
             IN  << [title |-> toc[i].title, key |-> "#" \o toc[i].bookmark,
                     page |-> page_num] >>

build(elems, toc) ==
    [pages     |-> NumPages(elems),
     flowables |-> elems,
     places    |-> Places(elems),
     outline   |-> Flatten([p \in 1..NumPages(elems) |-> header_footer(toc, p)])]

(***************************************************************************)
(* process_excel_files, one step of its loops at a time.                   *)
(***************************************************************************)
Seqs(S, n) == UNION {[1..k -> S] : k \in 0..n}

Injective(s) == \A i, j \in 1..Len(s) : s[i] = s[j] => i = j

FileLists == {s \in Seqs(Paths, MaxFiles) : Injective(s)}

Call ==
    /\ pc = "idle"
    /\ converters > 0
    /\ calls < MaxCalls
    /\ \E files \in FileLists : excel_files' = files
    /\ fi' = 0
    /\ pc' = "file_loop"
    /\ caller' = "main"
    /\ calls' = calls + 1
    /\ toc_base' = Len(toc_data)
    /\ UNCHANGED <<elements, toc_data, current_page, converters, sheet_names, si,
                   stdout, pdf, listing, df, split_dfs, col_widths>>

\* lines 142-157: the next file's TOC entry and title, then pd.ExcelFile
NextFile ==
    /\ pc = "file_loop"
    /\ fi < Len(excel_files)
    /\ LET excel_file    == excel_files[fi + 1]
           file_name     == basename(excel_file)
           file_bookmark == FileBookmark(toc_data)
           excel         == ExcelFile(excel_file)
       IN  /\ toc_data' = Append(toc_data, [title |-> file_name,
                                            page |-> current_page,
                                            bookmark |-> file_bookmark])
           /\ elements' = Append(elements,
                                 Paragraph(file_bookmark, "", file_name, "CustomTitle"))
           /\ IF excel.ok
              THEN /\ sheet_names' = excel.sheet_names
                   /\ si' = 0
                   /\ pc' = IF excel.sheet_names = <<>> THEN "file_loop"
                            ELSE "sheet_loop"
                   /\ UNCHANGED stdout
              ELSE /\ stdout' = Append(stdout, "Error processing file " \o file_name
                                               \o ": " \o excel.error)
                   /\ pc' = "file_loop"
                   /\ UNCHANGED <<sheet_names, si>>
    /\ fi' = fi + 1
    /\ UNCHANGED <<current_page, converters, excel_files, toc_base, pdf, caller,
                   listing, calls, df, split_dfs, col_widths>>

\* lines 158-214: one pass of the loop over excel.sheet_names.  When caught is
\* FALSE an exception leaves process_excel_files instead of being caught.
SheetBody(caught) ==
    /\ pc = "sheet_loop"
    /\ si < Len(sheet_names)
    /\ LET excel_file == excel_files[fi]
           file_name  == basename(excel_file)
           sheet_name == sheet_names[si + 1]
           rd         == read_excel(excel_file, sheet_name)
           after      == IF ~caught THEN "raised"
                         ELSE IF si + 1 = Len(sheet_names) THEN "file_loop"
                         ELSE "sheet_loop"
           next       == IF si + 1 = Len(sheet_names) THEN "file_loop"
                         ELSE "sheet_loop"
       IN  IF ~rd.ok
           THEN /\ stdout' = Append(stdout, "Error processing sheet " \o sheet_name
                                            \o " in " \o file_name \o ": " \o rd.error)
                /\ pc' = after
                /\ UNCHANGED <<elements, toc_data, current_page>>
           ELSE LET sheet_bookmark == SheetBookmark(toc_data, current_page)
                    header == Paragraph(sheet_bookmark, "", "Sheet: " \o sheet_name,
                                        "CustomHeading")
                    lay == LayoutSplits(split_dataframe(rd.df), 1,
                                        Append(elements, header))
                IN  /\ toc_data' = Append(toc_data,
                                          [title |-> SheetTitle(sheet_name),
                                           page |-> current_page,
                                           bookmark |-> sheet_bookmark])
                    /\ IF lay.ok
                       THEN /\ elements' = Append(lay.elements, PageBreak)
                            /\ current_page' = current_page + 1
                            /\ pc' = next
                            /\ UNCHANGED stdout
                       ELSE /\ elements' = lay.elements
                            /\ stdout' = Append(stdout,
                                                "Error processing sheet " \o sheet_name
                                                \o " in " \o file_name \o ": "
                                                \o lay.error)
                            /\ pc' = after
                            /\ UNCHANGED current_page
    /\ si' = si + 1
    /\ UNCHANGED <<converters, excel_files, fi, sheet_names, toc_base, pdf, caller,
                   listing, calls, df, split_dfs, col_widths>>

NextSheet_uncaught == SheetBody(FALSE)

NextSheet == SheetBody(TRUE)

\* lines 220-226, and line 265 when batch_excel_to_pdf made the call.
\* doc.build takes the flowables off the list it is given.
Finish ==
    /\ pc = "file_loop"
    /\ fi = Len(excel_files)
    /\ pdf' = build(create_table_of_contents(elements, toc_data), toc_data)
    /\ elements' = <<>>
    /\ pc' = "idle"
    /\ stdout' = IF caller = "batch"
                 THEN Append(stdout, "PDF created successfully: output.pdf")
                 ELSE stdout
    /\ UNCHANGED <<toc_data, current_page, converters, excel_files, fi, sheet_names,
                   si, toc_base, caller, listing, calls, df, split_dfs, col_widths>>

Init ==
    /\ elements = <<>>
    /\ toc_data = <<>>
    /\ current_page = 1
    /\ converters = 1
    /\ pc = "idle"
    /\ excel_files = <<>>
    /\ fi = 0
    /\ sheet_names = <<>>
    /\ si = 0
    /\ toc_base = 0
    /\ stdout = <<>>
    /\ pdf = NoPdf
    /\ caller = "main"
    /\ listing = <<>>
    /\ calls = 0
    /\ df = EmptyDf
    /\ split_dfs = <<>>
    /\ col_widths = <<>>

Next == Call \/ NextFile \/ NextSheet \/ Finish

Spec == Init /\ [][Next]_vars

(***************************************************************************)
(* batch_excel_to_pdf: no converter exists before it makes one.            *)
(***************************************************************************)
DirNames == {"test1.xlsx", "broken.xls", "test.xlsm", "notes.txt", "TEST.XLSX", "xlsx"}

Listings == {s \in Seqs(DirNames, MaxListing) : Injective(s)}

input_directory == "in"

is_excel_without_xlsm(f) == endswith(f, ".xlsx") \/ endswith(f, ".xls")

is_excel(f) == endswith(f, ".xlsx") \/ endswith(f, ".xls") \/ endswith(f, ".xlsm")

RECURSIVE ExcelFilesIn(_, _)
ExcelFilesIn(dir, names) ==
    IF names = <<>> THEN <<>>
    ELSE (IF is_excel(Head(names)) THEN <<path_join(dir, Head(names))>> ELSE <<>>)
         \o ExcelFilesIn(dir, Tail(names))

batch_excel_to_pdf ==
    /\ pc = "idle"
    /\ calls = 0
    /\ \E l \in Listings :
         /\ listing' = l
         /\ LET files == ExcelFilesIn(input_directory, l)
            IN  IF files = <<>>
                THEN /\ stdout' = Append(stdout, "No Excel files found in "
                                                 \o input_directory)
                     /\ UNCHANGED <<elements, toc_data, current_page, converters, pc,
                                    excel_files, fi, toc_base, caller>>
                ELSE /\ stdout' = Append(stdout, "Found " \o ToString(Len(files))
                                                 \o " Excel files")
                     /\ converters' = converters + 1
                     /\ elements' = <<>>
                     /\ toc_data' = <<>>
                     /\ current_page' = 1
                     /\ excel_files' = files
                     /\ fi' = 0
                     /\ toc_base' = 0
                     /\ caller' = "batch"
                     /\ pc' = "file_loop"
    /\ calls' = calls + 1
    /\ UNCHANGED <<sheet_names, si, pdf, df, split_dfs, col_widths>>

BatchInit ==
    /\ elements = <<>>
    /\ toc_data = <<>>
    /\ current_page = 1
    /\ converters = 0
    /\ pc = "idle"
    /\ excel_files = <<>>
    /\ fi = 0
    /\ sheet_names = <<>>
    /\ si = 0
    /\ toc_base = 0
    /\ stdout = <<>>
    /\ pdf = NoPdf
    /\ caller = "batch"
    /\ listing = <<>>
    /\ calls = 0
    /\ df = EmptyDf
    /\ split_dfs = <<>>
    /\ col_widths = <<>>

BatchNext == batch_excel_to_pdf \/ NextFile \/ NextSheet \/ Finish

BatchSpec == BatchInit /\ [][BatchNext]_vars

(***************************************************************************)
(* split_dataframe and process_dataframe called on a table of their own.   *)
(***************************************************************************)
MakeDf(n, r) ==
    [columns |-> [i \in 1..n |-> "c" \o ToString(i)],
     values  |-> [k \in 1..r |->
                    [i \in 1..n |-> "r" \o ToString(k) \o "c" \o ToString(i)]]]

SplitDfs == {MakeDf(n, r) : n \in 0..MaxSplitCols, r \in 0..MaxSplitRows}

ColumnKinds ==
    { [header |-> "id", cells |-> <<"1", "22">>],
      [header |-> "header of twenty-eight chars", cells |-> <<"x", "">>],
      [header |-> "note", cells |-> <<"", LongText>>] }

DfOf(cols) ==
    [columns |-> [i \in 1..Len(cols) |-> cols[i].header],
     values  |-> [r \in 1..2 |-> [i \in 1..Len(cols) |-> cols[i].cells[r]]]]

WidthDfs == {DfOf(cols) : cols \in Seqs(ColumnKinds, MaxWidthCols)}

TableInit(dfs) ==
    /\ elements = <<>>
    /\ toc_data = <<>>
    /\ current_page = 1
    /\ converters = 1
    /\ pc = "idle"
    /\ excel_files = <<>>
    /\ fi = 0
    /\ sheet_names = <<>>
    /\ si = 0
    /\ toc_base = 0
    /\ stdout = <<>>
    /\ pdf = NoPdf
    /\ caller = "main"
    /\ listing = <<>>
    /\ calls = 0
    /\ df \in dfs
    /\ split_dfs = <<>>
    /\ col_widths = <<>>

CallSplit ==
    /\ calls = 0
    /\ split_dfs' = split_dataframe(df)
    /\ calls' = 1
    /\ UNCHANGED <<elements, toc_data, current_page, converters, pc, excel_files, fi,
                   sheet_names, si, toc_base, stdout, pdf, caller, listing, df,
                   col_widths>>

SplitInit == TableInit(SplitDfs)

SplitSpec == SplitInit /\ [][CallSplit]_vars

CallProcess ==
    /\ calls = 0
    /\ col_widths' = process_dataframe(df).col_widths
    /\ calls' = 1
    /\ UNCHANGED <<elements, toc_data, current_page, converters, pc, excel_files, fi,
                   sheet_names, si, toc_base, stdout, pdf, caller, listing, df,
                   split_dfs>>

WidthInit == TableInit(WidthDfs)

WidthSpec == WidthInit /\ [][CallProcess]_vars

(***************************************************************************)
(* Properties.                                                             *)
(***************************************************************************)
Returned == pc = "idle" /\ calls > 0

Titles(toc) == [i \in 1..Len(toc) |-> toc[i].title]

Reads(sheet) == sheet.reads

SheetNamesOf(f) == [i \in 1..Len(f.sheets) |-> f.sheets[i].name]

ReadSheetTitles(f) ==
    LET ok == SelectSeq(f.sheets, Reads)
    IN  IF f.opens THEN [i \in 1..Len(ok) |-> "    ↳ " \o ok[i].name] ELSE <<>>

\* C1 as claimed: after process_excel_files the titles of toc_data are, for each
\* input file in input order, the file's base name followed by the names of the
\* file's sheets in workbook order.
C1_TitlesAreFileAndSheetNames ==
    Returned =>
        Titles(toc_data)
            = Flatten([k \in 1..Len(excel_files) |->
                         <<FileAt(excel_files[k]).name>>
                         \o SheetNamesOf(FileAt(excel_files[k]))])

\* C1 as amended: the titles of the entries a call appends to toc_data are, for
\* each input file in input order, the file's base name followed, when the file
\* could be opened, by "    ↳ " + name for each of its sheets that read_excel
\* could read, in workbook order.
C1_TitlesOfCall ==
    Returned =>
        Titles(SubSeq(toc_data, toc_base + 1, Len(toc_data)))
            = Flatten([k \in 1..Len(excel_files) |->
                         <<FileAt(excel_files[k]).name>>
                         \o ReadSheetTitles(FileAt(excel_files[k]))])

C1_Witness ==
    /\ Returned
    /\ calls = 2
    /\ toc_base > 0
    /\ excel_files = <<"in/test.xlsm", "in/test1.xlsx">>

AnchorPlaces(name) ==
    {pdf.places[j] : j \in {k \in 1..Len(pdf.flowables) :
                              /\ pdf.flowables[k].kind = "Paragraph"
                              /\ pdf.flowables[k].anchor = name}}

\* C2: the page recorded for every entry of toc_data is the page of the built
\* document on which that entry's file title or sheet header is rendered.
C2_RecordedPageIsRenderedPage ==
    Returned =>
        \A i \in 1..Len(toc_data) :
            AnchorPlaces(toc_data[i].bookmark) = {toc_data[i].page}

\* C3: when the document is built every entry of toc_data gets its bookmark and
\* outline entry placed by _header_footer exactly once.
C3_EveryEntryBookmarkedOnce ==
    Returned =>
        \A i \in 1..Len(toc_data) :
            Cardinality({k \in 1..Len(pdf.outline) :
                           pdf.outline[k].key = "#" \o toc_data[i].bookmark}) = 1

\* C4: the flowables of the built document start with the table of contents
\* (title, spacer, TOC table, page break), every file title, sheet header and
\* sheet table comes after them, and the TOC table has after its header row one
\* row per toc_data entry, in order, linking to the entry's bookmark and showing
\* its page.
C4_TocLeadsDocument ==
    Returned =>
        LET fl == pdf.flowables
        IN  /\ Len(fl) >= 4
            /\ fl[1].kind = "Paragraph" /\ fl[1].text = "Table of Contents"
            /\ fl[2].kind = "Spacer"
            /\ fl[3].kind = "Table"
            /\ fl[4].kind = "PageBreak"
            /\ \A j \in 1..Len(fl) :
                  \/ j > 4
                  \/ fl[j].kind = "Paragraph" /\ fl[j].anchor = ""
                  \/ fl[j].kind \in {"Spacer", "PageBreak"}
                  \/ j = 3
            /\ Len(fl[3].data) = Len(toc_data) + 1
            /\ \A i \in 1..Len(toc_data) :
                  /\ fl[3].data[i + 1][1].href = "#" \o toc_data[i].bookmark
                  /\ fl[3].data[i + 1][1].text = toc_data[i].title
                  /\ fl[3].data[i + 1][2].text = ToString(toc_data[i].page)

C4_Witness ==
    /\ Returned
    /\ Len(toc_data) >= 4
    /\ Len(pdf.flowables) > 8
    /\ \E j \in 5..Len(pdf.flowables) : pdf.flowables[j].kind = "Table"

ErrorPrinted ==
    /\ Len(stdout') = Len(stdout) + 1
    /\ SubSeq(stdout'[Len(stdout')], 1, 16) = "Error processing"

Built ==
    /\ pc = "idle"
    /\ fi = Len(excel_files)
    /\ pdf # NoPdf
    /\ Len(pdf.flowables[3].data) = Len(toc_data) + 1

MostSheets ==
    CHOOSE n \in {Len(f.sheets) : f \in FileSystem} :
        \A f \in FileSystem : Len(f.sheets) <= n

\* the steps a running call still has to take, at most
Remaining ==
    IF pc = "idle" THEN 0
    ELSE 1 + (Len(excel_files) - fi) * (1 + MostSheets)
           + (IF pc = "sheet_loop" THEN Len(sheet_names) - si ELSE 0)

\* C5: no exception leaves process_excel_files; a step that meets one (opening
\* a file, reading or laying out a sheet) stays inside the loops and moves on
\* to exactly the next sheet of the file, or the next file; a running call can
\* always take a next step, each step brings it nearer its end, and it returns
\* only by creating the table of contents and building the document, with
\* every input file taken.
C5_ErrorsAreCaughtAndCallCompletes ==
    /\ [](pc \in {"idle", "file_loop", "sheet_loop"})
    /\ [](pc = "file_loop" => fi <= Len(excel_files))
    /\ [](pc = "sheet_loop" => fi >= 1 /\ si < Len(sheet_names))
    /\ [][ErrorPrinted =>
            /\ pc' \in {"file_loop", "sheet_loop"}
            /\ excel_files' = excel_files
            /\ IF pc = "sheet_loop"
               THEN /\ si' = si + 1 /\ fi' = fi /\ sheet_names' = sheet_names
                    /\ (si' < Len(sheet_names) => pc' = "sheet_loop")
               ELSE fi' = fi + 1]_vars
    /\ [][pc # "idle" => Remaining' < Remaining]_vars
    /\ [][(pc # "idle" /\ pc' = "idle") =>
            /\ Built'
            /\ pdf'.flowables = create_table_of_contents(elements, toc_data)]_vars

C5_Witness ==
    /\ Built
    /\ Len(stdout) >= 3
    /\ excel_files = <<"in/test.xlsm", "in/broken.xls">>
    /\ \E i \in 1..Len(toc_data) : toc_data[i].title = "    ↳ Totals"
    /\ toc_data[Len(toc_data)].title = "broken.xls"

\* C6: a sheet whose processing raises an exception leaves toc_data, elements
\* and current_page as they were before the sheet was started.
C6_FailedSheetLeavesNoTrace ==
    [][(pc = "sheet_loop" /\ ErrorPrinted) =>
            UNCHANGED <<toc_data, elements, current_page>>]_vars

MatchIdx(l) ==
    {i \in 1..Len(l) :
        \E k \in 1..Len(l[i]) : SubSeq(l[i], k, Len(l[i])) \in {".xlsx", ".xls", ".xlsm"}}

Kth(S, k) == CHOOSE i \in S : Cardinality({j \in S : j <= i}) = k

\* C7: batch_excel_to_pdf hands the converter exactly the directory entries
\* whose names end in .xlsx, .xls or .xlsm (in listing order, joined to the
\* directory); with no such entry it makes no converter and builds no PDF.
C7_BatchFiltersByExtension ==
    [][calls' = calls + 1 =>
          IF MatchIdx(listing') = {}
          THEN /\ converters' = converters
               /\ pdf' = pdf
               /\ pc' = "idle"
               /\ UNCHANGED <<elements, toc_data, current_page, excel_files>>
          ELSE /\ converters' = converters + 1
               /\ pc' = "file_loop"
               /\ excel_files' = [k \in 1..Cardinality(MatchIdx(listing')) |->
                                    "in/" \o listing'[Kth(MatchIdx(listing'), k)]]]_vars

C7_Witness ==
    /\ Returned
    /\ calls = 1
    /\ listing = <<"notes.txt", "test.xlsm">>
    /\ excel_files = <<"in/test.xlsm">>
    /\ converters = 1
    /\ pdf # NoPdf

\* C8: split_dataframe returns max(1, ceil(n / 7)) pieces of at most 7 columns
\* (at least one when n > 0) whose columns, and whose rows, concatenated in
\* order are the original's; a table of at most 7 columns comes back as the one
\* unchanged piece.
C8_SplitKeepsEveryColumnOnce ==
    calls = 1 =>
        LET n == Len(df.columns)
        IN  /\ Len(split_dfs) = Max2(1, CeilDiv(n, 7))
            /\ \A k \in 1..Len(split_dfs) :
                  /\ Len(split_dfs[k].columns) <= 7
                  /\ n > 0 => Len(split_dfs[k].columns) >= 1
                  /\ Len(split_dfs[k].values) = Len(df.values)
            /\ Flatten([k \in 1..Len(split_dfs) |-> split_dfs[k].columns]) = df.columns
            /\ \A r \in 1..Len(df.values) :
                  Flatten([k \in 1..Len(split_dfs) |-> split_dfs[k].values[r]])
                      = df.values[r]
            /\ n <= 7 => split_dfs = <<df>>

C8_Witness ==
    /\ calls = 1
    /\ Len(df.columns) = 15
    /\ Len(df.values) = 2
    /\ Len(split_dfs) = 3
    /\ Len(split_dfs[3].columns) = 1

\* w * 2^60 as a natural number, for a width w = m * 2^e with e >= -60
Scaled60(w) == ShiftLeft(w.m, w.e + 60)

RECURSIVE SumBig(_)
SumBig(xs) == IF xs = <<>> THEN <<>> ELSE AddBig(Head(xs), SumBig(Tail(xs)), 0)

ExactSum60(ws) == SumBig([i \in 1..Len(ws) |-> Scaled60(ws[i])])

MaxWidth60 == ShiftLeft(<<732>>, 60)

ColTextLengths(i) ==
    {Len(df.columns[i])} \cup {Len(df.values[r][i]) : r \in 1..Len(df.values)}

Longest(i) == CHOOSE n \in ColTextLengths(i) : \A m \in ColTextLengths(i) : m <= n

Clamped(i) ==
    IF 7 * Longest(i) < 50 THEN 50
    ELSE IF 7 * Longest(i) > 200 THEN 200 ELSE 7 * Longest(i)

ClampedTotal == SumSeq([i \in 1..Len(df.columns) |-> Clamped(i)])

\* w is c * 732 / total up to the rounding of one division and one product:
\* | w * total - 732 * c | <= 732 * c * 2^-51
NearScaled(w, c, total) ==
    LET a == MulSmall(Scaled60(w), total, 0)
        b == ShiftLeft(MulSmall(<<732>>, c, 0), 60)
        d == ShiftLeft(MulSmall(<<732>>, c, 0), 9)
    IN  LeqBig(a, AddBig(b, d, 0)) /\ LeqBig(b, AddBig(a, d, 0))

\* one width per column: the clamped widths, scaled by 732 / total exactly when
\* their total exceeds 732
WidthsClampedThenScaled ==
    /\ Len(col_widths) = Len(df.columns)
    /\ IF ClampedTotal > 732
       THEN \A i \in 1..Len(col_widths) :
               NearScaled(col_widths[i], Clamped(i), ClampedTotal)
       ELSE \A i \in 1..Len(col_widths) : col_widths[i] = FromInt(Clamped(i))

\* C9 as claimed: process_dataframe returns one width per column, clamped to
\* [50, 200] from 7 times the longest text of the column and scaled by
\* max_width / total only when the total exceeds max_width, and the widths sum
\* to at most max_width.
C9_WidthsSumAtMostMaxWidth ==
    calls = 1 =>
        /\ WidthsClampedThenScaled
        /\ LeqBig(ExactSum60(col_widths), MaxWidth60)

\* C9 as amended: the same, but the scaled widths are floats and sum to
\* max_width only up to rounding: the sum is at most max_width when no scaling
\* took place and within 2^-42 of max_width when it did.
C9_WidthsSumToMaxWidthUpToRounding ==
    calls = 1 =>
        /\ WidthsClampedThenScaled
        /\ IF ClampedTotal > 732
           THEN /\ LeqBig(ExactSum60(col_widths),
                          AddBig(MaxWidth60, ShiftLeft(<<1>>, 18), 0))
                /\ LeqBig(MaxWidth60,
                          AddBig(ExactSum60(col_widths), ShiftLeft(<<1>>, 18), 0))
           ELSE LeqBig(ExactSum60(col_widths), MaxWidth60)

C9_Witness ==
    /\ calls = 1
    /\ Len(col_widths) = 7
    /\ ClampedTotal > 732
    /\ ~LeqBig(ExactSum60(col_widths), MaxWidth60)

\* C10: no two entries of toc_data have the same bookmark name; the name of the
\* entry at index k (from 0) is file_<k> or sheet_<k>.
C10_BookmarkNamesAreIndexed ==
    /\ \A i \in 1..Len(toc_data) :
          toc_data[i].bookmark \in {"file_" \o ToString(i - 1),
                                    "sheet_" \o ToString(i - 1)}
    /\ \A i, j \in 1..Len(toc_data) :
          toc_data[i].bookmark = toc_data[j].bookmark => i = j

C10_Witness ==
    /\ calls = 2
    /\ toc_base > 0
    /\ Len(toc_data) >= 6
    /\ Len(stdout) >= 2
    /\ \E i \in 1..toc_base : \E j \in (toc_base + 1)..Len(toc_data) :
          toc_data[i].title = toc_data[j].title

====
